---- MODULE Spec2Model ----
(***************************************************************************)
(* Model of the multipart-upload engine of oss-rust:                       *)
(*   utils.rs  split_file_by_part_size, load_chunk_file                    *)
(*   oss.rs    list_bucket, get_object, head_object, put_object_from_*,    *)
(*             delete_object,                                              *)
(*             get_resources_str, initiate_multipart_upload, upload_part,  *)
(*             complete_multipart_upload, abort_multipart_upload,          *)
(*             chunk_upload_by_size, get_complete_str                      *)
(* Strings are TLC strings; a Result is a record tagged by "state".        *)
(***************************************************************************)
EXTENDS Integers, Sequences, FiniteSets, TLC

(* ------------------------------------------------------------------ *)
(* Bounds of the model                                                *)
(* ------------------------------------------------------------------ *)
MaxFile == 5
MaxChunk == 3

(* ------------------------------------------------------------------ *)
(* Results and errors                                                 *)
(* ------------------------------------------------------------------ *)
Ok(v) == [state |-> "ok", val |-> v]
Err(e) == [state |-> "err", err |-> e]
Panic(m) == [state |-> "panic", msg |-> m]
NoResult == [state |-> "none"]

IsOk(r) == r.state = "ok"
IsErr(r) == r.state = "err"

\* Error::E(String)
ErrorE(m) == [kind |-> "E", msg |-> m]
\* Error::Io, produced by `?` on a std::io::Error
ErrorIo(m) == [kind |-> "Io", msg |-> m]

(* ------------------------------------------------------------------ *)
(* utils.rs: split_file_by_part_size                                  *)
(* ------------------------------------------------------------------ *)
\* the part-count limit of line 55
PartLimit == 10000

FileChunk(number, offset, size) ==
  [number |-> number, offset |-> offset, size |-> size]

\* u64, scaled: a word of WordBits bits stands for the 64 of the code
WordBits == 18
Word == 2 ^ WordBits

\* Mul with a fault: the product taken in a word one bit narrower
MulNarrow(a, b) == (a * b) % (Word \div 2)

\* a * b and a + b on u64, wrapping
Mul(a, b) == (a * b) % Word
Add(a, b) == (a + b) % Word

\* FullChunks with a fault: the offset taken after the increment of i
FullChunksOffsetAfter(chunk_n, chunk_size) ==
  [k \in 1..chunk_n |-> FileChunk((k - 1) + 1, k * chunk_size, chunk_size)]

\* the while loop of lines 61-71: iteration i (0-based) pushes
\* FileChunk { number: i + 1, offset: i * chunk_size, size: chunk_size }
FullChunks(chunk_n, chunk_size) ==
  [k \in 1..chunk_n |-> FileChunk(Add(k - 1, 1), Mul(k - 1, chunk_size), chunk_size)]

\* WithTail with a fault: the trailing chunk numbered chunks.len()
WithTailNumberLen(chunks, size, chunk_size) ==
  IF size % chunk_size > 0
  THEN Append(chunks, FileChunk(Len(chunks), Len(chunks) * chunk_size,
                                size % chunk_size))
  ELSE chunks

\* lines 73-80: the trailing chunk, numbered and placed after chunks.len()
WithTail(chunks, size, chunk_size) ==
  IF size % chunk_size > 0
  THEN Append(chunks, FileChunk(Add(Len(chunks), 1), Mul(Len(chunks), chunk_size),
                                size % chunk_size))
  ELSE chunks

\* TooManyParts with a fault: > for >=
TooManyPartsStrict(chunk_n) == chunk_n > PartLimit

\* the guard of line 55
TooManyParts(chunk_n) == chunk_n >= PartLimit

\* metadata: the outcome of f.metadata().await (line 52): Ok(len) or an Io error
split_file_by_part_size(metadata, chunk_size) ==
  IF chunk_size <= 0 THEN Err(ErrorE("chunk_size invalid"))
  ELSE IF ~IsOk(metadata) THEN metadata
  ELSE LET size == metadata.val
           chunk_n == size \div chunk_size
       IN IF TooManyParts(chunk_n)
          THEN Err(ErrorE("Too many parts, please increase part size"))
          ELSE Ok(WithTail(FullChunks(chunk_n, chunk_size), size, chunk_size))

(* ------------------------------------------------------------------ *)
(* The environment: the provider, the transport, the file system      *)
(* ------------------------------------------------------------------ *)
UploadIds == {"id1", "id2"}
Etags == {"\"e1\"", "\"e2\""}
ErrTexts == {"denied"}

\* what the transport hands back for one request
TransportError == [kind |-> "transport_error", success |-> FALSE, has_etag |-> FALSE,
                   etag |-> "", has_id |-> FALSE, id |-> "", text |-> ""]
HttpFailure(text) == [kind |-> "http", success |-> FALSE, has_etag |-> FALSE,
                      etag |-> "", has_id |-> FALSE, id |-> "", text |-> text]
HttpSuccess == [kind |-> "http", success |-> TRUE, has_etag |-> FALSE,
                etag |-> "", has_id |-> FALSE, id |-> "", text |-> ""]
HttpSuccessId(id) == [HttpSuccess EXCEPT !.has_id = TRUE, !.id = id]
HttpSuccessEtag(etag) == [HttpSuccess EXCEPT !.has_etag = TRUE, !.etag = etag]

Failures == {TransportError} \cup {HttpFailure(t) : t \in ErrTexts}
InitiateResponses == Failures \cup {HttpSuccess} \cup {HttpSuccessId(u) : u \in UploadIds}
PartResponses == Failures \cup {HttpSuccess} \cup {HttpSuccessEtag(e) : e \in Etags}
PlainResponses == Failures \cup {HttpSuccess}

\* the headers argument of chunk_upload_by_size: None, a valid map, or a map
\* that to_headers rejects
HeaderInputs == {"None", "Valid", "Invalid"}

NoReq == [method |-> "", url |-> "", headers |-> <<>>, body |-> [kind |-> "none"]]
NoResp == [kind |-> "none", success |-> FALSE, has_etag |-> FALSE,
           etag |-> "", has_id |-> FALSE, id |-> "", text |-> ""]

(* ------------------------------------------------------------------ *)
(* oss.rs: the client                                                 *)
(* ------------------------------------------------------------------ *)
Bucket == "xxx"
Endpoint == "xxx.aliyuncs.com"
ObjectName == "object_name"
Date == "Tue, 03 Nov 2026 09:00:00 GMT"

\* Error::Object(ObjectError::PutError { msg }) and DeleteError { msg }
PutError(m) == [kind |-> "PutError", msg |-> m]
DeleteError(m) == [kind |-> "DeleteError", msg |-> m]
\* Error::Reqwest, produced by `?` on send(): a reqwest::Error names the url
ErrorReqwest(url) ==
  [kind |-> "Reqwest", msg |-> "error sending request for url (" \o url \o ")"]
\* the error of to_headers on an invalid header name or value
ErrorHeader == [kind |-> "Header", msg |-> "invalid header"]

\* {:?} of resp.text().await, a Result<String, _>
DebugText(text) == "Ok(\"" \o text \o "\")"

\* OSS::host with an endpoint that does not start with "https"
host(bucket, object, resources_str) ==
  "http://" \o bucket \o "." \o Endpoint \o "/" \o object \o "?" \o resources_str

\* the authorization token, as a term over what is signed
oss_sign(verb, bucket, object, resources_str, headers) ==
  [verb |-> verb, bucket |-> bucket, object |-> object,
   resources |-> resources_str, headers |-> headers]

\* to_headers(h) or HeaderMap::new(), for a headers argument that is not Invalid
UserHeaders(h) == IF h = "Valid" THEN [n \in {"x-oss-meta"} |-> "v"]
                  ELSE [n \in {} |-> ""]

Put(headers, name, value) ==
  [n \in DOMAIN headers \cup {name} |-> IF n = name THEN value ELSE headers[n]]

\* headers.insert(DATE, ..); headers.insert("Authorization", oss_sign(..))
Signed(verb, object, resources_str, headers) ==
  LET dated == Put(headers, "date", Date)
  IN Put(dated, "authorization",
         oss_sign(verb, Bucket, object, resources_str, dated))

(* ------------------------------------------------------------------ *)
(* oss.rs: get_resources_str.  params is the HashMap as the sequence  *)
(* of its entries <<key, value>> in the order its iterator yields     *)
(* them; a value is None or Some(v).                                  *)
(* ------------------------------------------------------------------ *)
None == [some |-> FALSE, val |-> ""]
Some(v) == [some |-> TRUE, val |-> v]

RESOURCES ==
  {"acl", "uploads", "location", "cors", "logging", "website", "referer",
   "lifecycle", "delete", "append", "tagging", "objectMeta", "uploadId",
   "partNumber", "security-token", "position", "img", "style", "styleName",
   "replication", "replicationProgress", "replicationLocation", "cname",
   "bucketInfo", "comp", "qos", "live", "status", "vod", "startTime",
   "endTime", "symlink", "x-oss-process", "response-content-type",
   "response-content-language", "response-expires",
   "response-cache-control", "response-content-disposition",
   "response-content-encoding", "udf", "udfName", "udfImage", "udfId",
   "udfImageDesc", "udfApplication", "comp", "udfApplicationLog",
   "restore", "callback", "callback-var"}

\* the UTF-8 bytes of the keys the model passes in
Bytes ==
  ("acl" :> <<97, 99, 108>>) @@
  ("uploads" :> <<117, 112, 108, 111, 97, 100, 115>>) @@
  ("uploadId" :> <<117, 112, 108, 111, 97, 100, 73, 100>>) @@
  ("partNumber" :> <<112, 97, 114, 116, 78, 117, 109, 98, 101, 114>>) @@
  ("not-a-resource" :> <<110, 111, 116, 45, 97, 45, 114, 101, 115, 111, 117, 114, 99, 101>>) @@
  ("a" :> <<97>>) @@
  ("b" :> <<98>>)

\* x < y for byte strings, as Ord for String orders them, from byte i on
RECURSIVE BytesLess(_, _, _)
BytesLess(x, y, i) ==
  IF i > Len(x) THEN i <= Len(y)
  ELSE IF i > Len(y) THEN FALSE
  ELSE IF x[i] # y[i] THEN x[i] < y[i]
  ELSE BytesLess(x, y, i + 1)

\* a.0.as_ref().to_string().cmp(&b.0.as_ref().to_string()) is Less
KeyLess(a, b) == BytesLess(Bytes[a[1]], Bytes[b[1]], 1)

\* InResources with a fault: the filter left out
InResourcesAll(e) == TRUE

\* line 142: the filter
InResources(e) == e[1] \in RESOURCES

\* e put into the sorted sequence s behind every entry that is not greater
RECURSIVE InsertSorted(_, _)
InsertSorted(s, e) ==
  IF s = <<>> THEN <<e>>
  ELSE IF KeyLess(e, s[Len(s)]) THEN Append(InsertSorted(SubSeq(s, 1, Len(s) - 1), e), s[Len(s)])
  ELSE Append(s, e)

RECURSIVE SortPrefix(_, _)
SortPrefix(s, n) ==
  IF n = 0 THEN <<>> ELSE InsertSorted(SortPrefix(s, n - 1), s[n])

\* SortByKey with a fault: the entries left in the order of the iterator
SortByKeyNone(resources) == resources

\* line 144: resources.sort_by(..), a stable sort by key
SortByKey(resources) == SortPrefix(resources, Len(resources))

\* JoinResources with a fault: the separator pushed before the first entry too
RECURSIVE JoinResourcesLeadingAmp(_, _, _)
JoinResourcesLeadingAmp(result, resources, k) ==
  IF k > Len(resources) THEN result
  ELSE LET sep == result \o "&"
           kv == resources[k]
           text == IF kv[2].some THEN kv[1] \o "=" \o kv[2].val ELSE kv[1]
       IN JoinResourcesLeadingAmp(sep \o text, resources, k + 1)

\* lines 145-156: the loop from the k-th entry on
RECURSIVE JoinResources(_, _, _)
JoinResources(result, resources, k) ==
  IF k > Len(resources) THEN result
  ELSE LET sep == IF result # "" THEN result \o "&" ELSE result
           kv == resources[k]
           text == IF kv[2].some THEN kv[1] \o "=" \o kv[2].val ELSE kv[1]
       IN JoinResources(sep \o text, resources, k + 1)

get_resources_str(params) ==
  JoinResources("", SortByKey(SelectSeq(params, InResources)), 1)

(* ------------------------------------------------------------------ *)
(* oss.rs: get_complete_str                                           *)
(* ------------------------------------------------------------------ *)
Part(number, etag) == [PartNumber |-> number, ETag |-> etag]

\* PartToString with a fault: the elements on lines of their own
PartToStringPretty(p) ==
  "<Part>\n  <PartNumber>" \o ToString(p.PartNumber) \o "</PartNumber>\n  <ETag>"
    \o p.ETag \o "</ETag>\n</Part>"

\* to_string(&p) of serde_xml_rs for struct Part, as test_get_complete_str
\* asserts it: the struct's tag, each field's tag around its value as text
PartToString(p) ==
  "<Part><PartNumber>" \o ToString(p.PartNumber) \o "</PartNumber><ETag>"
    \o p.ETag \o "</ETag></Part>"

\* the loop of lines 784-786 from the k-th part on
RECURSIVE PushParts(_, _, _)
PushParts(str, parts, k) ==
  IF k > Len(parts) THEN str
  ELSE PushParts(str \o PartToString(parts[k]), parts, k + 1)

get_complete_str(complete) ==
  PushParts("<CompleteMultipartUpload>", complete.Part, 1)
    \o "</CompleteMultipartUpload>"

(* ------------------------------------------------------------------ *)
(* utils.rs: load_chunk_file                                          *)
(* ------------------------------------------------------------------ *)
Min(a, b) == IF a <= b THEN a ELSE b
Max(a, b) == IF a >= b THEN a ELSE b

\* seek to offset, then take(size).read_to_end: the bytes of the file from
\* offset, at most size of them, of a file that holds cur_len bytes now
load_chunk_file(io_ok, cur_len, offset, size) ==
  IF ~io_ok THEN Err(ErrorIo("read"))
  ELSE Ok([kind |-> "bytes", offset |-> offset,
           len |-> Min(size, Max(cur_len - offset, 0))])

(* ------------------------------------------------------------------ *)
(* oss.rs: the four requests of a multipart upload.  Each yields      *)
(* [sent, req, ret]: whether a request reached the transport, the     *)
(* request, and what the function returns given the response resp.    *)
(* ------------------------------------------------------------------ *)
Exchange(sent, req, ret) == [sent |-> sent, req |-> req, ret |-> ret]

Request(method, url, headers, body) ==
  [method |-> method, url |-> url, headers |-> headers, body |-> body]

\* initiate_multipart_upload with a fault: the status of the response not tested
initiate_multipart_upload_any_status(object_name, headers, resp) ==
  LET resources_str == "uploads"
      hdrs == Signed("POST", object_name, resources_str, UserHeaders(headers))
      req == Request("POST", host(Bucket, object_name, resources_str), hdrs,
                     [kind |-> "empty"])
  IN IF headers = "Invalid" THEN Exchange(FALSE, NoReq, Err(ErrorHeader))
     ELSE IF resp.kind = "transport_error" THEN Exchange(TRUE, req, Err(ErrorReqwest(req.url)))
     ELSE IF resp.has_id \/ ~resp.success THEN Exchange(TRUE, req, Ok(resp.id))
     ELSE Exchange(TRUE, req, Panic("from_str(..).unwrap()"))

initiate_multipart_upload(object_name, headers, resp) ==
  LET resources_str == "uploads"
      hdrs == Signed("POST", object_name, resources_str, UserHeaders(headers))
      req == Request("POST", host(Bucket, object_name, resources_str), hdrs,
                     [kind |-> "empty"])
  IN IF headers = "Invalid" THEN Exchange(FALSE, NoReq, Err(ErrorHeader))
     ELSE IF resp.kind = "transport_error" THEN Exchange(TRUE, req, Err(ErrorReqwest(req.url)))
     ELSE IF resp.success
       THEN IF resp.has_id THEN Exchange(TRUE, req, Ok(resp.id))
            ELSE Exchange(TRUE, req, Panic("from_str(..).unwrap()"))
       ELSE Exchange(TRUE, req,
              Err(PutError("can not put object, reason: " \o DebugText(resp.text))))

upload_part(object_name, chunk, upload_id, loaded, resp) ==
  LET resources_str ==
        "partNumber=" \o ToString(chunk.number) \o "&uploadId=" \o upload_id
      hdrs == Signed("PUT", object_name, resources_str, UserHeaders("None"))
  IN IF ~IsOk(loaded) THEN Exchange(FALSE, NoReq, loaded)
     ELSE LET buf == loaded.val
              req == Request("PUT", host(Bucket, object_name, resources_str),
                             Put(hdrs, "content-length", buf.len), buf)
          IN IF resp.kind = "transport_error"
               THEN Exchange(TRUE, req, Err(ErrorReqwest(req.url)))
             ELSE IF resp.success
               THEN IF resp.has_etag THEN Exchange(TRUE, req, Ok(resp.etag))
                    ELSE Exchange(TRUE, req, Panic("get(ETAG).unwrap()"))
               ELSE Exchange(TRUE, req,
                      Err(PutError("can not put object, reason: "
                                     \o DebugText(resp.text))))

\* complete_multipart_upload with a fault: the test of the status inverted
complete_multipart_upload_inverted(object_name, upload_id, complete, resp) ==
  LET resources_str == "uploadId=" \o upload_id
      buf == get_complete_str(complete)
      hdrs == Signed("POST", object_name, resources_str, UserHeaders("None"))
      req == Request("POST", host(Bucket, object_name, resources_str),
                     Put(hdrs, "content-length", Len(buf)),
                     [kind |-> "text", text |-> buf])
  IN IF resp.kind = "transport_error" THEN Exchange(TRUE, req, Err(ErrorReqwest(req.url)))
     ELSE IF ~resp.success THEN Exchange(TRUE, req, Ok("()"))
     ELSE Exchange(TRUE, req,
            Err(PutError("can not put object, status code: "
                           \o DebugText(resp.text))))

complete_multipart_upload(object_name, upload_id, complete, resp) ==
  LET resources_str == "uploadId=" \o upload_id
      buf == get_complete_str(complete)
      hdrs == Signed("POST", object_name, resources_str, UserHeaders("None"))
      req == Request("POST", host(Bucket, object_name, resources_str),
                     Put(hdrs, "content-length", Len(buf)),
                     [kind |-> "text", text |-> buf])
  IN IF resp.kind = "transport_error" THEN Exchange(TRUE, req, Err(ErrorReqwest(req.url)))
     ELSE IF resp.success THEN Exchange(TRUE, req, Ok("()"))
     ELSE Exchange(TRUE, req,
            Err(PutError("can not put object, status code: "
                           \o DebugText(resp.text))))

\* line 661 sends client.delete(&host) without .headers(headers): the signed
\* header map is built and dropped
abort_multipart_upload(object_name, upload_id, resp) ==
  LET resources_str == "uploadId=" \o upload_id
      req == Request("DELETE", host(Bucket, object_name, resources_str),
                     UserHeaders("None"), [kind |-> "empty"])
  IN IF resp.kind = "transport_error" THEN Exchange(TRUE, req, Err(ErrorReqwest(req.url)))
     ELSE IF resp.success THEN Exchange(TRUE, req, Ok("()"))
     ELSE Exchange(TRUE, req,
            Err(DeleteError("can not abort multipart upload, reason: "
                              \o DebugText(resp.text))))

(* ------------------------------------------------------------------ *)
(* oss.rs: list_bucket and the object requests, each on its own.      *)
(* resources is the Option of a map: None, or Some(params).           *)
(* ------------------------------------------------------------------ *)
MaxReqParams == 2

NoResources == [some |-> FALSE, val |-> <<>>]

\* if let Some(r) = resources { self.get_resources_str(r) } else { String::new() }
resources_str_of(resources) ==
  IF resources.some THEN get_resources_str(resources.val) ELSE ""

\* lines 159-276: the request goes to self.endpoint(); resources_str is handed
\* to oss_sign only.  The XML of the answer is read whatever its status.
list_bucket(resources, resp) ==
  LET resources_str == resources_str_of(resources)
      host_ == Endpoint
      dated == Put(UserHeaders("None"), "date", Date)
      hdrs == Put(dated, "authorization", oss_sign("GET", "", "", resources_str, dated))
      req == Request("GET", host_, hdrs, [kind |-> "empty"])
  IN IF resp.kind = "transport_error" THEN Exchange(TRUE, req, Err(ErrorReqwest(req.url)))
     ELSE Exchange(TRUE, req, Ok("ListBuckets"))

\* lines 278-318 (verb "GET") and 320-360 (verb "HEAD"): to_headers(h).unwrap(),
\* no test of the status
fetch_object(verb, object, headers, resources, resp) ==
  LET resources_str == resources_str_of(resources)
      hdrs == Signed(verb, object, resources_str, UserHeaders(headers))
      req == Request(verb, host(Bucket, object, resources_str), hdrs, [kind |-> "empty"])
  IN IF headers = "Invalid" THEN Exchange(FALSE, NoReq, Panic("to_headers(h).unwrap()"))
     ELSE IF resp.kind = "transport_error"
       THEN Exchange(TRUE, req, Err(ErrorReqwest(req.url)))
     ELSE Exchange(TRUE, req, Ok(IF verb = "GET" THEN "Bytes" ELSE "HeaderMap"))

get_object(object, headers, resources, resp) ==
  fetch_object("GET", object, headers, resources, resp)

head_object(object, headers, resources, resp) ==
  fetch_object("HEAD", object, headers, resources, resp)

\* lines 362-408
put_object_from_buffer(object, headers, resources, resp) ==
  LET resources_str == resources_str_of(resources)
      hdrs == Signed("PUT", object, resources_str, UserHeaders(headers))
      req == Request("PUT", host(Bucket, object, resources_str), hdrs, [kind |-> "buf"])
  IN IF headers = "Invalid" THEN Exchange(FALSE, NoReq, Panic("to_headers(h).unwrap()"))
     ELSE IF resp.kind = "transport_error"
       THEN Exchange(TRUE, req, Err(ErrorReqwest(req.url)))
     ELSE Exchange(TRUE, req, Ok("Bytes"))

\* lines 410-466: load_file, to_headers, content-length before the signature
put_object_from_file(loaded, object_name, headers, resources, resp) ==
  LET resources_str == resources_str_of(resources)
      hdrs == Signed("PUT", object_name, resources_str,
                     Put(UserHeaders(headers), "content-length", loaded.val.len))
      req == Request("PUT", host(Bucket, object_name, resources_str), hdrs, loaded.val)
  IN IF ~IsOk(loaded) THEN Exchange(FALSE, NoReq, loaded)
     ELSE IF headers = "Invalid" THEN Exchange(FALSE, NoReq, Err(ErrorHeader))
     ELSE IF resp.kind = "transport_error"
       THEN Exchange(TRUE, req, Err(ErrorReqwest(req.url)))
     ELSE IF resp.success THEN Exchange(TRUE, req, Ok("()"))
     ELSE Exchange(TRUE, req,
            Err(PutError("can not put object, reason: " \o DebugText(resp.text))))

\* lines 731-761
delete_object(object_name, resp) ==
  LET hdrs == Signed("DELETE", object_name, "", UserHeaders("None"))
      req == Request("DELETE", host(Bucket, object_name, ""), hdrs, [kind |-> "empty"])
  IN IF resp.kind = "transport_error" THEN Exchange(TRUE, req, Err(ErrorReqwest(req.url)))
     ELSE IF resp.success THEN Exchange(TRUE, req, Ok("()"))
     ELSE Exchange(TRUE, req,
            Err(DeleteError("can not delete object, reason: " \o DebugText(resp.text))))

(* ------------------------------------------------------------------ *)
(* oss.rs: chunk_upload_by_size, one run                              *)
(* ------------------------------------------------------------------ *)
VARIABLES
  chunk_size,  \* argument chunk_size
  metadata,    \* what f.metadata() yields for the file: Ok(len) or an Io error
  headers,     \* argument headers, one of HeaderInputs
  pc,          \* where the run stands
  plan,        \* the result of split_file_by_part_size
  upload_id,   \* local upload_id ("" before initiate returned)
  next,        \* position of the for loop in chunks (1-based)
  parts,       \* local parts
  held_err,    \* the e of line 711 while the abort is awaited
  result,      \* what chunk_upload_by_size returned
  calls,       \* history: the calls made so far, with request and response
  arg,         \* the argument of a function called on its own
  ret,         \* what that function returned
  suspended    \* the locals of a second run on the same client, held by its
               \* future while the first run is polled

vars == <<chunk_size, metadata, headers, pc, plan, upload_id, next, parts,
          held_err, result, calls, arg, ret, suspended>>

run_vars == <<chunk_size, metadata, headers, plan, upload_id, next, parts,
              held_err, result, calls, suspended>>

NoError == [kind |-> "", msg |-> ""]
NoArg == [fn |-> "none"]

\* the locals of a run that has just been called
StartLocals(size, chunk, hs) ==
  [chunk_size |-> chunk, metadata |-> Ok(size), headers |-> hs, pc |-> "plan",
   plan |-> NoResult, upload_id |-> "", next |-> 1, parts |-> <<>>,
   held_err |-> NoError, result |-> NoResult, calls |-> <<>>]

\* no second run
NoRun == [StartLocals(0, 0, "None") EXCEPT !.pc = "none"]

Call(fn, number, id, ex, resp) ==
  [fn |-> fn, number |-> number, upload_id |-> id, sent |-> ex.sent,
   req |-> ex.req, resp |-> IF ex.sent THEN resp ELSE NoResp, ret |-> ex.ret]

\* file sizes and chunk sizes of a run: the small ones, and those whose
\* part count reaches the limit
SmallInputs == {<<f, c>> : f \in 0..MaxFile, c \in 0..MaxChunk}
TooManyInputs == {<<PartLimit * c + d, c>> : c \in 1..MaxChunk, d \in 0..MaxChunk}
Inputs == SmallInputs \cup TooManyInputs

InitRun(inputs, hs) ==
  /\ \E in \in inputs :
       /\ chunk_size = in[2]
       /\ metadata \in {Ok(in[1]), Err(ErrorIo("metadata"))}
  /\ headers \in hs
  /\ pc = "plan"
  /\ plan = NoResult
  /\ upload_id = ""
  /\ next = 1
  /\ parts = <<>>
  /\ held_err = NoError
  /\ result = NoResult
  /\ calls = <<>>
  /\ arg = NoArg
  /\ ret = NoResult

InitWith(inputs, hs) == InitRun(inputs, hs) /\ suspended = NoRun

Init == InitWith(Inputs, HeaderInputs)

\* ChunksEmpty with a fault: the check left out
ChunksEmptyNever(chunks) == FALSE

\* line 692: chunks.is_empty()
ChunksEmpty(chunks) == Len(chunks) = 0

\* lines 688-694: plan, return its error, or the error of an empty plan
Plan ==
  /\ pc = "plan"
  /\ plan' = split_file_by_part_size(metadata, chunk_size)
  /\ \/ /\ ~IsOk(plan')
        /\ result' = plan'
        /\ pc' = "done"
     \/ /\ IsOk(plan') /\ ChunksEmpty(plan'.val)
        /\ result' = Err(ErrorE("chunks is empty"))
        /\ pc' = "done"
     \/ /\ IsOk(plan') /\ ~ChunksEmpty(plan'.val)
        /\ result' = result
        /\ pc' = "initiate"
  /\ UNCHANGED <<chunk_size, metadata, headers, upload_id, next, parts,
                 held_err, calls, arg, ret, suspended>>

\* the upload ids the provider has handed to the other run: an id names one
\* session, so the provider hands it out once
Issued ==
  {suspended.calls[k].resp.id :
     k \in {j \in DOMAIN suspended.calls : suspended.calls[j].resp.has_id}}

\* line 696
Initiate ==
  /\ pc = "initiate"
  /\ \E resp \in InitiateResponses :
       LET ex == initiate_multipart_upload(ObjectName, headers, resp)
       IN /\ resp.has_id => resp.id \notin Issued
          /\ calls' = Append(calls, Call("initiate", 0, "", ex, resp))
          /\ \/ /\ IsOk(ex.ret)
                /\ upload_id' = ex.ret.val
                /\ result' = result
                /\ pc' = "upload"
             \/ /\ IsErr(ex.ret)
                /\ upload_id' = upload_id
                /\ result' = ex.ret
                /\ pc' = "done"
             \/ /\ ex.ret.state = "panic"
                /\ upload_id' = upload_id
                /\ result' = ex.ret
                /\ pc' = "panicked"
  /\ UNCHANGED <<chunk_size, metadata, headers, plan, next, parts, held_err,
                 arg, ret, suspended>>

\* the lengths the file may have when a chunk is read
ReadLens(len) == {len} \cup {l \in {len - 1} : l >= 0}

\* OnPartErr with a fault: the error returned at once, as by `?`
OnPartErrReturn(e) ==
  /\ result' = Err(e)
  /\ pc' = "done"
  /\ UNCHANGED <<held_err, parts, next>>

\* OnPartErr with a fault: the failed part skipped and the loop continued
OnPartErrContinue(e) ==
  /\ next' = next + 1
  /\ UNCHANGED <<held_err, parts, result, pc>>

\* OnPartErr with a fault: the failed part uploaded again
OnPartErrRetry(e) ==
  /\ UNCHANGED <<held_err, parts, next, result, pc>>

\* lines 711-712: Err(e) => the abort is called, e is kept for the return
OnPartErr(e) ==
  /\ held_err' = e
  /\ pc' = "abort"
  /\ UNCHANGED <<parts, next, result>>

\* PushPart with a fault: the part put in front
PushPartFront(ps, chunk, etag) == <<Part(chunk.number, etag)>> \o ps

\* lines 716-719: parts.push(Part { PartNumber: chunk.number, ETag: etag })
PushPart(ps, chunk, etag) == Append(ps, Part(chunk.number, etag))

\* lines 699-720: one iteration of the for loop
UploadPart ==
  /\ pc = "upload"
  /\ next <= Len(plan.val)
  /\ \E io_ok \in BOOLEAN, cur_len \in ReadLens(metadata.val), resp \in PartResponses :
       LET chunk == plan.val[next]
           loaded == load_chunk_file(io_ok, cur_len, chunk.offset, chunk.size)
           ex == upload_part(ObjectName, chunk, upload_id, loaded, resp)
       IN /\ calls' = Append(calls, Call("upload_part", chunk.number, upload_id, ex, resp))
          /\ \/ /\ IsOk(ex.ret)
                /\ parts' = PushPart(parts, chunk, ex.ret.val)
                /\ next' = next + 1
                /\ UNCHANGED <<held_err, result, pc>>
             \/ /\ IsErr(ex.ret)
                /\ OnPartErr(ex.ret.err)
             \/ /\ ex.ret.state = "panic"
                /\ result' = ex.ret
                /\ pc' = "panicked"
                /\ UNCHANGED <<parts, next, held_err>>
  /\ UNCHANGED <<chunk_size, metadata, headers, plan, upload_id, arg, ret, suspended>>

\* AbortReturn with a fault: a failed abort's error returned in place of e
AbortReturnAbortError(e, aborted) == IF IsErr(aborted) THEN aborted ELSE Err(e)

\* lines 712-713: `let _ =` drops the abort's result; return Err(e)
AbortReturn(e, aborted) == Err(e)

\* Abort with a fault: the run goes on to complete after the abort
AbortThenComplete ==
  /\ pc = "abort"
  /\ \E resp \in PlainResponses :
       LET ex == abort_multipart_upload(ObjectName, upload_id, resp)
       IN calls' = Append(calls, Call("abort", 0, upload_id, ex, resp))
  /\ next' = Len(plan.val) + 1
  /\ pc' = "upload"
  /\ UNCHANGED <<chunk_size, metadata, headers, plan, upload_id, parts,
                 held_err, result, arg, ret, suspended>>

\* lines 712-713: the abort, its result dropped, and the return of e
Abort ==
  /\ pc = "abort"
  /\ \E resp \in PlainResponses :
       LET ex == abort_multipart_upload(ObjectName, upload_id, resp)
       IN /\ calls' = Append(calls, Call("abort", 0, upload_id, ex, resp))
          /\ result' = AbortReturn(held_err, ex.ret)
  /\ pc' = "done"
  /\ UNCHANGED <<chunk_size, metadata, headers, plan, upload_id, next, parts,
                 held_err, arg, ret, suspended>>

\* lines 722-728
Complete ==
  /\ pc = "upload"
  /\ next > Len(plan.val)
  /\ \E resp \in PlainResponses :
       LET ex == complete_multipart_upload(ObjectName, upload_id,
                                           [Part |-> parts], resp)
       IN /\ calls' = Append(calls, Call("complete", 0, upload_id, ex, resp))
          /\ result' = ex.ret
  /\ pc' = "done"
  /\ UNCHANGED <<chunk_size, metadata, headers, plan, upload_id, next, parts,
                 held_err, arg, ret, suspended>>

Next == Plan \/ Initiate \/ UploadPart \/ Abort \/ Complete

Spec == Init /\ [][Next]_vars

(* ------------------------------------------------------------------ *)
(* Two runs of chunk_upload_by_size on one client (&self).  Each run   *)
(* is a future that owns its locals; the executor polls one of them    *)
(* at a time and may change over at every .await.                      *)
(* ------------------------------------------------------------------ *)
MaxConcFile == 2

\* the locals of the run being polled
Locals ==
  [chunk_size |-> chunk_size, metadata |-> metadata, headers |-> headers,
   pc |-> pc, plan |-> plan, upload_id |-> upload_id, next |-> next,
   parts |-> parts, held_err |-> held_err, result |-> result, calls |-> calls]

ConcurrentInputs == {<<f, 1>> : f \in 1..MaxConcFile}

InitConcurrent ==
  /\ InitRun(ConcurrentInputs, {"None"})
  /\ suspended \in {StartLocals(in[1], in[2], "None") : in \in ConcurrentInputs}

\* Switch with a fault: upload_id kept where both runs reach it, as a field of
\* the client would be
SwitchKeepId ==
  /\ suspended.pc # "none"
  /\ suspended' = [Locals EXCEPT !.upload_id = suspended.upload_id]
  /\ chunk_size' = suspended.chunk_size
  /\ metadata' = suspended.metadata
  /\ headers' = suspended.headers
  /\ pc' = suspended.pc
  /\ plan' = suspended.plan
  /\ upload_id' = upload_id
  /\ next' = suspended.next
  /\ parts' = suspended.parts
  /\ held_err' = suspended.held_err
  /\ result' = suspended.result
  /\ calls' = suspended.calls
  /\ UNCHANGED <<arg, ret>>

\* at an .await the executor leaves the run it polled and polls the other one:
\* every local of lines 689-698 is held by its own future
Switch ==
  /\ suspended.pc # "none"
  /\ suspended' = Locals
  /\ chunk_size' = suspended.chunk_size
  /\ metadata' = suspended.metadata
  /\ headers' = suspended.headers
  /\ pc' = suspended.pc
  /\ plan' = suspended.plan
  /\ upload_id' = suspended.upload_id
  /\ next' = suspended.next
  /\ parts' = suspended.parts
  /\ held_err' = suspended.held_err
  /\ result' = suspended.result
  /\ calls' = suspended.calls
  /\ UNCHANGED <<arg, ret>>

NextConcurrent == Plan \/ Initiate \/ UploadPart \/ Abort \/ Complete \/ Switch

SpecConcurrent == InitConcurrent /\ [][NextConcurrent]_vars

(* ------------------------------------------------------------------ *)
(* A run whose caller may drop the future at an .await                 *)
(* ------------------------------------------------------------------ *)
\* the future of chunk_upload_by_size dropped while it waits at one of the
\* .await of lines 691-728: its locals are dropped, no code of the run executes
Drop ==
  /\ pc \in {"plan", "initiate", "upload", "abort"}
  /\ pc' = "dropped"
  /\ UNCHANGED <<run_vars, arg, ret>>

NextDrop == Plan \/ Initiate \/ UploadPart \/ Abort \/ Complete \/ Drop

SpecDrop == Init /\ [][NextDrop]_vars

(* ------------------------------------------------------------------ *)
(* split_file_by_part_size on its own                                 *)
(* ------------------------------------------------------------------ *)
MaxPlanFile == 12

\* as Inputs, with the sizes just under the part limit and the plan of
\* a 250000-byte file in chunks of 100000
BoundaryInputs ==
  {<<(PartLimit - 1) * c + d, c>> : c \in 1..MaxChunk, d \in 0..MaxChunk}
\* the largest file sizes of the word, in chunks of the smallest sizes the part
\* limit admits and of the largest sizes
WideChunks ==
  {Word \div PartLimit, Word \div PartLimit + 1, Word \div PartLimit + 2,
   Word \div 1024, Word \div 2, Word - 1}
WideInputs == {<<Word - 1 - d, c>> : d \in 0..MaxChunk, c \in WideChunks}
PlanInputs ==
  {<<f, c>> : f \in 0..MaxPlanFile, c \in 0..MaxChunk}
    \cup TooManyInputs \cup BoundaryInputs \cup {<<250000, 100000>>}
    \cup WideInputs

InitPlan == InitWith(PlanInputs, {"None"})

SpecPlan == InitPlan /\ [][Plan]_vars

Planned == pc # "plan"
PlanOk == Planned /\ IsOk(plan)
FileSize == metadata.val

\* the sum of the sizes of chunks lo..hi, by halves
RECURSIVE SumSizes(_, _, _)
SumSizes(chunks, lo, hi) ==
  IF lo > hi THEN 0
  ELSE IF lo = hi THEN chunks[lo].size
  ELSE LET mid == (lo + hi) \div 2
       IN SumSizes(chunks, lo, mid) + SumSizes(chunks, mid + 1, hi)

\* C1: a plan that succeeds numbers its chunks 1, 2, .., k in list order, starts
\* at offset 0, starts each chunk where the one before it ends with offsets
\* strictly increasing, and its sizes sum to the file size.
C1_PlanContiguous ==
  PlanOk =>
    LET chunks == plan.val
    IN /\ \A i \in 1..Len(chunks) : chunks[i].number = i
       /\ Len(chunks) > 0 => chunks[1].offset = 0
       /\ \A i \in 1..(Len(chunks) - 1) :
            /\ chunks[i + 1].offset = chunks[i].offset + chunks[i].size
            /\ chunks[i].offset < chunks[i + 1].offset
       /\ SumSizes(chunks, 1, Len(chunks)) = FileSize

C1_Witness ==
  /\ PlanOk
  /\ Len(plan.val) >= 3
  /\ plan.val[Len(plan.val)].size < chunk_size

\* C2: every plan that succeeds holds strictly fewer than 10000 chunks, the
\* trailing remainder chunk counted.
C2_FewerThanLimit == PlanOk => Len(plan.val) < PartLimit

\* the plan the claim C3 describes
ReferenceLen == (FileSize \div chunk_size)
                  + (IF FileSize % chunk_size > 0 THEN 1 ELSE 0)
ReferenceChunk(i) ==
  IF i < FileSize \div chunk_size
  THEN [number |-> i + 1, offset |-> i * chunk_size, size |-> chunk_size]
  ELSE [number |-> (FileSize \div chunk_size) + 1,
        offset |-> (FileSize \div chunk_size) * chunk_size,
        size |-> FileSize % chunk_size]

\* C3: a plan that succeeds is file_size / chunk_size chunks (i+1, i*chunk_size,
\* chunk_size), then one chunk of file_size % chunk_size bytes if and only if that
\* is not 0; 250000 bytes in chunks of 100000 plan to (1,0,100000),
\* (2,100000,100000), (3,200000,50000).
C3_PlanIsReference ==
  /\ PlanOk =>
       /\ Len(plan.val) = ReferenceLen
       /\ \A i \in 0..(ReferenceLen - 1) : plan.val[i + 1] = ReferenceChunk(i)
  /\ (Planned /\ metadata = Ok(250000) /\ chunk_size = 100000) =>
       plan = Ok(<<[number |-> 1, offset |-> 0, size |-> 100000],
                   [number |-> 2, offset |-> 100000, size |-> 100000],
                   [number |-> 3, offset |-> 200000, size |-> 50000]>>)

C3_Witness == Planned /\ metadata = Ok(250000) /\ chunk_size = 100000 /\ IsOk(plan)

(* ------------------------------------------------------------------ *)
(* chunk_upload_by_size: planning                                     *)
(* ------------------------------------------------------------------ *)
\* C4: for a file of 0 bytes and a chunk size above 0 the plan is Ok and empty,
\* and the run returns an error without any call to the provider.
C4_EmptyFileRejected ==
  (Planned /\ metadata = Ok(0) /\ chunk_size > 0) =>
    /\ plan = Ok(<<>>)
    /\ pc = "done"
    /\ IsErr(result)
    /\ calls = <<>>

C4_Witness == pc = "done" /\ metadata = Ok(0) /\ chunk_size > 0

TooManyCase ==
  IsOk(metadata) /\ chunk_size > 0 /\ FileSize \div chunk_size >= PartLimit

\* C5: with chunk_size 0, or file_size / chunk_size at 10000 or more, planning
\* fails and the run returns that error, having made no call to the provider and
\* holding no upload id.
C5_PlanErrorNoCalls ==
  (Planned /\ (chunk_size = 0 \/ TooManyCase)) =>
    /\ IsErr(plan)
    /\ result = plan
    /\ pc = "done"
    /\ calls = <<>>
    /\ upload_id = ""

C5_Witness == pc = "done" /\ TooManyCase /\ FileSize = PartLimit * chunk_size

(* ------------------------------------------------------------------ *)
(* chunk_upload_by_size: part failure, abort, complete                *)
(* ------------------------------------------------------------------ *)
CallsOf(fn) == {k \in DOMAIN calls : calls[k].fn = fn}
Requests(fn) == {k \in CallsOf(fn) : calls[k].sent}
FailedParts == {k \in CallsOf("upload_part") : IsErr(calls[k].ret)}

\* the upload id the run's initiate returned
InitiatedId == calls[1].ret.val

\* C6: when the upload of part k fails, the run issues exactly one abort request,
\* for the upload id initiate returned, no upload of a later part, and no complete.
C6_AbortAfterPartFailure ==
  \A k \in FailedParts :
    /\ pc \in {"abort", "done"}
    /\ pc = "abort" => Len(calls) = k
    /\ pc = "done" =>
         /\ Len(calls) = k + 1
         /\ Cardinality(Requests("abort")) = 1
         /\ calls[k + 1].fn = "abort" /\ calls[k + 1].sent
         /\ calls[k + 1].req.method = "DELETE"
         /\ calls[k + 1].req.url =
              host(Bucket, ObjectName, "uploadId=" \o InitiatedId)
    /\ \A j \in CallsOf("upload_part") : calls[j].number <= calls[k].number
    /\ CallsOf("complete") = {}

\* part 2 of 3 failed and the run returned
C6_Witness ==
  /\ pc = "done"
  /\ IsOk(plan)
  /\ Len(plan.val) = 3
  /\ \E k \in FailedParts : calls[k].number = 2 /\ calls[k].sent

\* C7: when a part upload fails, the run returns that part upload's error,
\* whether the abort then succeeds or fails.
C7_PartErrorReturned ==
  pc = "done" => \A k \in FailedParts : result = calls[k].ret

\* a part was refused by the provider and the abort failed too
C7_Witness ==
  /\ pc = "done"
  /\ \E k \in FailedParts : calls[k].ret.err.kind = "PutError"
  /\ \E a \in CallsOf("abort") : IsErr(calls[a].ret)

\* the etag the provider returned for part number i in this run
EtagReturned(i) ==
  calls[CHOOSE j \in CallsOf("upload_part") : calls[j].number = i].resp.etag

\* C8: the complete request lists one (number, etag) entry per planned chunk, in
\* the order 1..n, each with the etag the provider returned for that part.
C8_CompleteListsParts ==
  \A c \in Requests("complete") :
    LET n == Len(plan.val)
        expected == [i \in 1..n |-> Part(i, EtagReturned(i))]
    IN /\ \A i \in 1..n :
            Cardinality({j \in Requests("upload_part") :
                           calls[j].number = i /\ IsOk(calls[j].ret)}) = 1
       /\ parts = expected
       /\ calls[c].req.body =
            [kind |-> "text", text |-> get_complete_str([Part |-> expected])]

\* a complete request for three parts whose etags differ
C8_Witness ==
  \E c \in Requests("complete") :
    /\ Len(plan.val) = 3
    /\ EtagReturned(1) # EtagReturned(2)

(* ------------------------------------------------------------------ *)
(* chunk_upload_by_size: the session, the requests, the errors        *)
(* ------------------------------------------------------------------ *)
\* C12: a run that obtained an upload id and returned has ended the session:
\* its complete request succeeded, or it issued an abort request for that id.
C12_SessionTerminated ==
  (pc = "done" /\ upload_id # "") =>
    \/ \E c \in Requests("complete") : IsOk(calls[c].ret)
    \/ \E a \in Requests("abort") :
         calls[a].req.url = host(Bucket, ObjectName, "uploadId=" \o upload_id)

\* C13: every request handed to the transport carries a Date header and an
\* Authorization header computed for its method, object and resources.
C13_RequestsSigned ==
  \A k \in DOMAIN calls :
    calls[k].sent =>
      LET req == calls[k].req
      IN /\ "date" \in DOMAIN req.headers
         /\ "authorization" \in DOMAIN req.headers
         /\ req.headers["authorization"].verb = req.method
         /\ req.headers["authorization"].object = ObjectName
         /\ req.url = host(Bucket, ObjectName, req.headers["authorization"].resources)

\* C14: each part upload sends the size bytes of its chunk from the chunk's
\* offset; a read that yields fewer bytes sends no request.
C14_ExactBytesSent ==
  \A k \in Requests("upload_part") :
    LET chunk == plan.val[calls[k].number]
    IN /\ calls[k].req.body.offset = chunk.offset
       /\ calls[k].req.body.len = chunk.size

\* the phases of a run, and the errors each can return
Phases ==
  {<<"plan", 0>>, <<"initiate", 0>>, <<"complete", 0>>}
    \cup {<<"part", n>> : n \in 1..MaxFile}

Errors(rets) == {r \in rets : IsErr(r)}

ErrorsOf(phase) ==
  CASE phase[1] = "plan" ->
         Errors({split_file_by_part_size(m, c) :
                   m \in {Ok(f) : f \in 0..MaxFile} \cup {Err(ErrorIo("metadata"))},
                   c \in 0..MaxChunk})
           \cup {Err(ErrorE("chunks is empty"))}
    [] phase[1] = "initiate" ->
         Errors({initiate_multipart_upload(ObjectName, h, r).ret :
                   h \in HeaderInputs, r \in InitiateResponses})
    [] phase[1] = "part" ->
         Errors({upload_part(ObjectName, FileChunk(phase[2], 0, 1), id, l, r).ret :
                   id \in UploadIds,
                   l \in {load_chunk_file(io, 1, 0, 1) : io \in BOOLEAN},
                   r \in PartResponses})
    [] phase[1] = "complete" ->
         Errors({complete_multipart_upload(ObjectName, id, [Part |-> <<>>], r).ret :
                   id \in UploadIds, r \in PlainResponses})

\* the phase the returned error comes from
Origin ==
  IF calls = <<>> THEN <<"plan", 0>>
  ELSE IF FailedParts # {} THEN <<"part", calls[CHOOSE k \in FailedParts : TRUE].number>>
  ELSE <<calls[Len(calls)].fn, 0>>

\* C15: an error the run returns is one that no other phase, and no other part
\* number, can return: it tells the phase it comes from.
C15_ErrorNamesPhase ==
  (pc = "done" /\ IsErr(result)) =>
    \A phase \in Phases \ {Origin} : result \notin ErrorsOf(phase)

\* every call so far reached the provider and was answered with success
AllSucceeded ==
  /\ calls # <<>>
  /\ \A k \in DOMAIN calls :
       /\ calls[k].sent
       /\ calls[k].resp.success
       /\ calls[k].fn = "initiate" => calls[k].resp.has_id
       /\ calls[k].fn = "upload_part" => calls[k].resp.has_etag

\* one initiate, the parts 1..n in order, one complete, and no abort
HappyRequests ==
  LET n == Len(plan.val)
  IN /\ Len(calls) = n + 2
     /\ \A k \in DOMAIN calls : calls[k].sent
     /\ calls[1].fn = "initiate"
     /\ \A i \in 1..n : calls[i + 1].fn = "upload_part" /\ calls[i + 1].number = i
     /\ calls[n + 2].fn = "complete"
     /\ CallsOf("abort") = {}

\* C16: when initiate, every part upload and complete succeed, the run returns
\* Ok(()) and its requests are one initiate, then the n part uploads, then one
\* complete, and no abort.
C16_HappyPath ==
  /\ AllSucceeded => pc \in {"upload", "done"}
  /\ (pc = "done" /\ AllSucceeded) => result = Ok("()") /\ HappyRequests
  /\ (pc = "done" /\ IsOk(result)) => AllSucceeded /\ HappyRequests

C16_Witness == pc = "done" /\ AllSucceeded /\ Len(plan.val) = 3

InitiateFailed(k) ==
  \/ ~calls[k].sent
  \/ calls[k].resp.kind = "transport_error"
  \/ calls[k].resp.kind = "http" /\ ~calls[k].resp.success

\* C17: when the initiate request fails, the run returns that error and issues
\* no part upload, no complete and no abort.
C17_InitiateErrorDirect ==
  \A k \in CallsOf("initiate") :
    InitiateFailed(k) =>
      /\ pc = "done"
      /\ IsErr(calls[k].ret)
      /\ result = calls[k].ret
      /\ Len(calls) = 1
      /\ upload_id = ""

\* initiate was refused by the provider
C17_Witness ==
  /\ pc = "done"
  /\ \E k \in CallsOf("initiate") :
       calls[k].sent /\ calls[k].resp.kind = "http" /\ ~calls[k].resp.success

\* C18: the part uploads are issued one after the other in ascending order: the
\* request for a part follows the successful return of every part before it.
C18_PartsSequential ==
  \A k \in CallsOf("upload_part") :
    /\ calls[k].number = k - 1
    /\ \A j \in CallsOf("upload_part") :
         j < k => IsOk(calls[j].ret) /\ calls[j].number + (k - j) = calls[k].number
    /\ next \in {calls[k].number, calls[k].number + 1} \/ k < Len(calls)

C18_Witness ==
  \E k \in CallsOf("upload_part") : calls[k].number = 3 /\ IsErr(calls[k].ret)

\* C20: no step of a run is tried again: initiate, the upload of each part
\* number, complete and abort are each issued at most once, and no call that
\* failed is followed by the same call.
C20_NoRetry ==
  /\ Cardinality(CallsOf("initiate")) <= 1
  /\ Cardinality(CallsOf("complete")) <= 1
  /\ Cardinality(CallsOf("abort")) <= 1
  /\ \A j, k \in CallsOf("upload_part") : calls[j].number = calls[k].number => j = k
  /\ \A j, k \in DOMAIN calls :
       (j < k /\ ~IsOk(calls[j].ret)) =>
         calls[k].fn # calls[j].fn \/ calls[k].number # calls[j].number

\* a part failed after an earlier part succeeded, and the abort failed
C20_Witness ==
  /\ pc = "done"
  /\ \E k \in FailedParts : calls[k].number = 2
  /\ \E a \in CallsOf("abort") : IsErr(calls[a].ret)

(* ------------------------------------------------------------------ *)
(* get_complete_str and get_resources_str on their own                *)
(* ------------------------------------------------------------------ *)
MaxParts == 2
MaxPartNumber == 3
MaxParams == 3

RunIdle ==
  /\ chunk_size = 0
  /\ metadata = Ok(0)
  /\ headers = "None"
  /\ plan = NoResult
  /\ upload_id = ""
  /\ next = 1
  /\ parts = <<>>
  /\ held_err = NoError
  /\ result = NoResult
  /\ calls = <<>>
  /\ suspended = NoRun

Returned(fn) == pc = "returned" /\ arg.fn = fn

RenderEtags == {"etag1", "etag2", "\"test\"", "\"123\""}
PartLists ==
  UNION {[1..n -> {Part(k, e) : k \in 1..MaxPartNumber, e \in RenderEtags}]
           : n \in 0..MaxParts}

InitComplete ==
  /\ RunIdle
  /\ pc = "call"
  /\ arg \in {[fn |-> "get_complete_str", complete |-> [Part |-> ps]]
                : ps \in PartLists}
  /\ ret = NoResult

CallGetCompleteStr ==
  /\ pc = "call"
  /\ arg.fn = "get_complete_str"
  /\ ret' = Ok(get_complete_str(arg.complete))
  /\ pc' = "returned"
  /\ UNCHANGED <<run_vars, arg>>

SpecComplete == InitComplete /\ [][CallGetCompleteStr]_vars

\* a number in decimal
Digit(d) == <<"0", "1", "2", "3", "4", "5", "6", "7", "8", "9">>[d + 1]
RECURSIVE Decimal(_)
Decimal(n) == IF n < 10 THEN Digit(n) ELSE Decimal(n \div 10) \o Digit(n % 10)

RECURSIVE PartElements(_)
PartElements(ps) ==
  IF ps = <<>> THEN ""
  ELSE "<Part><PartNumber>" \o Decimal(Head(ps).PartNumber) \o "</PartNumber>"
         \o "<ETag>" \o Head(ps).ETag \o "</ETag></Part>" \o PartElements(Tail(ps))

\* C9: get_complete_str renders <CompleteMultipartUpload>, then for each part in
\* list order <Part><PartNumber>N</PartNumber><ETag>E</ETag></Part> with the number
\* and the etag as given, then </CompleteMultipartUpload>, with nothing between
\* the elements; the parts (1,etag1),(2,etag2) render as the string of the
\* specification, and those of test_get_complete_str as the test asserts.
C9_CompleteStr ==
  Returned("get_complete_str") =>
    LET ps == arg.complete.Part
    IN /\ ret = Ok("<CompleteMultipartUpload>" \o PartElements(ps)
                     \o "</CompleteMultipartUpload>")
       /\ ps = <<Part(1, "etag1"), Part(2, "etag2")>> =>
            ret.val = "<CompleteMultipartUpload><Part><PartNumber>1</PartNumber><ETag>etag1</ETag></Part><Part><PartNumber>2</PartNumber><ETag>etag2</ETag></Part></CompleteMultipartUpload>"
       /\ ps = <<Part(2, "\"test\""), Part(2, "\"123\"")>> =>
            ret.val = "<CompleteMultipartUpload><Part><PartNumber>2</PartNumber><ETag>\"test\"</ETag></Part><Part><PartNumber>2</PartNumber><ETag>\"123\"</ETag></Part></CompleteMultipartUpload>"

C9_Witness ==
  /\ Returned("get_complete_str")
  /\ arg.complete.Part = <<Part(1, "etag1"), Part(2, "etag2")>>

ParamKeys == DOMAIN Bytes
ParamValues == {None, Some("1")}
Range(s) == {s[i] : i \in DOMAIN s}

\* the maps of at most MaxParams entries, in every order of iteration, and
\* the map {"not-a-resource": "x"}
ParamMaps ==
  {ps \in UNION {[1..n -> ParamKeys \X ParamValues] : n \in 0..MaxParams} :
     \A i, j \in DOMAIN ps : ps[i][1] = ps[j][1] => i = j}
    \cup {<<(<<"not-a-resource", Some("x")>>)>>}

InitResources ==
  /\ RunIdle
  /\ pc = "call"
  /\ arg \in {[fn |-> "get_resources_str", params |-> ps] : ps \in ParamMaps}
  /\ ret = NoResult

CallGetResourcesStr ==
  /\ pc = "call"
  /\ arg.fn = "get_resources_str"
  /\ ret' = Ok(get_resources_str(arg.params))
  /\ pc' = "returned"
  /\ UNCHANGED <<run_vars, arg>>

SpecResources == InitResources /\ [][CallGetResourcesStr]_vars

\* the same map in every order of iteration
Reorderings(ps) ==
  {q \in [DOMAIN ps -> Range(ps)] : Range(q) = Range(ps)}

\* the sequences of allow-listed entries of ps whose keys ascend strictly
Ascending(ps) ==
  LET kept == {e \in Range(ps) : e[1] \in RESOURCES}
  IN {q \in [1..Cardinality(kept) -> kept] :
        \A i, j \in DOMAIN q : i < j => BytesLess(Bytes[q[i][1]], Bytes[q[j][1]], 1)}

Entry(e) == IF e[2] = None THEN e[1] ELSE e[1] \o "=" \o e[2].val
RECURSIVE Joined(_)
Joined(q) ==
  IF q = <<>> THEN ""
  ELSE IF Len(q) = 1 THEN Entry(q[1])
  ELSE Entry(Head(q)) \o "&" \o Joined(Tail(q))

\* C10: get_resources_str yields the same string for a map whatever the order
\* its entries are iterated in, and in that string the parameters stand in
\* ascending byte order of their keys.
C10_ResourcesOrderIndependent ==
  Returned("get_resources_str") =>
    /\ \A q \in Reorderings(arg.params) : get_resources_str(q) = ret.val
    /\ \E q \in Ascending(arg.params) : ret.val = Joined(q)

\* a map iterated with the key uploads before the key uploadId
C10_Witness ==
  /\ Returned("get_resources_str")
  /\ \E i, j \in DOMAIN arg.params :
       i < j /\ arg.params[i][1] = "uploads" /\ arg.params[j][1] = "uploadId"
  /\ ret.val # ""


\* ps without the entries whose key is not allow-listed
RECURSIVE Restricted(_)
Restricted(ps) ==
  IF ps = <<>> THEN <<>>
  ELSE IF Head(ps)[1] \in RESOURCES THEN <<Head(ps)>> \o Restricted(Tail(ps))
  ELSE Restricted(Tail(ps))

\* C11: get_resources_str drops the keys that are not in RESOURCES: the string
\* is made of allow-listed entries only, it is the string of the map restricted
\* to the allow-listed keys, and a map of unrecognized keys alone yields "".
C11_UnrecognizedDropped ==
  Returned("get_resources_str") =>
    /\ \E q \in Ascending(arg.params) : ret.val = Joined(q)
    /\ ret.val = get_resources_str(Restricted(arg.params))
    /\ Restricted(arg.params) = <<>> => ret.val = ""
    /\ arg.params = <<(<<"not-a-resource", Some("x")>>)>> => ret.val = ""

\* a map with an allow-listed key and an unrecognized one
C11_Witness ==
  /\ Returned("get_resources_str")
  /\ Restricted(arg.params) # <<>>
  /\ Restricted(arg.params) # arg.params

\* the allow-listed entries of ps in ascending order of key
Kept(ps) == CHOOSE q \in Ascending(ps) : TRUE

\* C19: of the allow-listed entries, get_resources_str writes key for a value
\* that is absent and key=value for one that is present, with one & between
\* two entries and none before the first or after the last; the empty map
\* yields "".
C19_EntriesJoined ==
  Returned("get_resources_str") =>
    LET q == Kept(arg.params)
        item(e) == IF e[2].some THEN e[1] \o "=" \o e[2].val ELSE e[1]
    IN /\ arg.params = <<>> => ret.val = ""
       /\ Len(q) = 0 => ret.val = ""
       /\ Len(q) = 1 => ret.val = item(q[1])
       /\ Len(q) = 2 => ret.val = item(q[1]) \o "&" \o item(q[2])
       /\ Len(q) = 3 => ret.val = item(q[1]) \o "&" \o item(q[2]) \o "&" \o item(q[3])
       /\ ret.val = Joined(q)
       /\ arg.params = <<(<<"uploads", None>>), (<<"uploadId", Some("1")>>)>> =>
            ret.val = "uploadId=1&uploads"

C19_Witness ==
  /\ Returned("get_resources_str")
  /\ arg.params = <<(<<"uploads", None>>), (<<"uploadId", Some("1")>>)>>

(* ------------------------------------------------------------------ *)
(* list_bucket and the object requests on their own                   *)
(* ------------------------------------------------------------------ *)
RequestFns == {"list_bucket", "get_object", "head_object", "put_object_from_buffer",
               "put_object_from_file", "delete_object"}
ResourceArgs ==
  {NoResources} \cup {Some(ps) : ps \in {q \in ParamMaps : Len(q) <= MaxReqParams}}

\* the whole file, as load_file reads it
WholeFile(io_ok) ==
  IF io_ok THEN Ok([kind |-> "bytes", offset |-> 0, len |-> 1]) ELSE Err(ErrorIo("read"))

InitRequests ==
  /\ RunIdle
  /\ pc = "call"
  /\ arg \in {[fn |-> f, headers |-> h, resources |-> r, io_ok |-> io] :
                f \in RequestFns, h \in HeaderInputs, r \in ResourceArgs,
                io \in BOOLEAN}
  /\ arg.fn # "put_object_from_file" => arg.io_ok
  /\ arg.fn \in {"list_bucket", "delete_object"} => arg.headers = "None"
  /\ arg.fn = "delete_object" => arg.resources = NoResources
  /\ ret = NoResult

\* each call keeps its exchange, the request sent and the result, in ret
CallListBucket ==
  /\ pc = "call"
  /\ arg.fn = "list_bucket"
  /\ \E resp \in PlainResponses :
       ret' = list_bucket(arg.resources, resp)
  /\ pc' = "returned"
  /\ UNCHANGED <<run_vars, arg>>

CallGetObject ==
  /\ pc = "call"
  /\ arg.fn = "get_object"
  /\ \E resp \in PlainResponses :
       ret' = get_object(ObjectName, arg.headers, arg.resources, resp)
  /\ pc' = "returned"
  /\ UNCHANGED <<run_vars, arg>>

CallHeadObject ==
  /\ pc = "call"
  /\ arg.fn = "head_object"
  /\ \E resp \in PlainResponses :
       ret' = head_object(ObjectName, arg.headers, arg.resources, resp)
  /\ pc' = "returned"
  /\ UNCHANGED <<run_vars, arg>>

CallPutObjectFromBuffer ==
  /\ pc = "call"
  /\ arg.fn = "put_object_from_buffer"
  /\ \E resp \in PlainResponses :
       ret' = put_object_from_buffer(ObjectName, arg.headers, arg.resources, resp)
  /\ pc' = "returned"
  /\ UNCHANGED <<run_vars, arg>>

CallPutObjectFromFile ==
  /\ pc = "call"
  /\ arg.fn = "put_object_from_file"
  /\ \E resp \in PlainResponses :
       ret' = put_object_from_file(WholeFile(arg.io_ok), ObjectName, arg.headers,
                                   arg.resources, resp)
  /\ pc' = "returned"
  /\ UNCHANGED <<run_vars, arg>>

CallDeleteObject ==
  /\ pc = "call"
  /\ arg.fn = "delete_object"
  /\ \E resp \in PlainResponses :
       ret' = delete_object(ObjectName, resp)
  /\ pc' = "returned"
  /\ UNCHANGED <<run_vars, arg>>

NextRequests ==
  \/ CallListBucket
  \/ CallGetObject
  \/ CallHeadObject
  \/ CallPutObjectFromBuffer
  \/ CallPutObjectFromFile
  \/ CallDeleteObject

SpecRequests == InitRequests /\ [][NextRequests]_vars

\* the urls without their query string
UrlBases == {Endpoint, "http://" \o Bucket \o "." \o Endpoint \o "/" \o ObjectName}

\* q is the query string of url
QueryIs(url, q) ==
  \/ \E base \in UrlBases : url = base \o "?" \o q
  \/ q = "" /\ url \in UrlBases

\* C23: the query string of the url of every request the client sends is the
\* resource string its signature was computed for.
C23_QueryIsSignedResources ==
  (pc = "returned" /\ arg.fn \in RequestFns /\ ret.sent) =>
    QueryIs(ret.req.url, ret.req.headers["authorization"].resources)

(* ------------------------------------------------------------------ *)
(* Two concurrent runs; a dropped run                                  *)
(* ------------------------------------------------------------------ *)
\* the request of call c names upload id
CarriesId(c, id) ==
  c.req.url = host(Bucket, ObjectName,
                   IF c.fn = "upload_part"
                     THEN "partNumber=" \o ToString(c.number) \o "&uploadId=" \o id
                     ELSE "uploadId=" \o id)

\* the upload id the run's own initiate returned
HasOwnId(run) == run.calls # <<>> /\ IsOk(run.calls[1].ret)
OwnId(run) == run.calls[1].ret.val

BothRuns == {<<Locals, suspended>>, <<suspended, Locals>>}

\* C21: every part upload, complete and abort request of a run carries the
\* upload id its own initiate returned, and with two runs on one client no
\* request of a run carries the upload id of the other run.
C21_UploadIdOwned ==
  \A pair \in BothRuns :
    LET run == pair[1]
        other == pair[2]
    IN /\ run.upload_id # "" => HasOwnId(run) /\ run.upload_id = OwnId(run)
       /\ \A k \in DOMAIN run.calls :
            (run.calls[k].sent /\ run.calls[k].fn # "initiate") =>
              /\ HasOwnId(run)
              /\ CarriesId(run.calls[k], OwnId(run))
              /\ run.calls[k].upload_id = OwnId(run)
              /\ HasOwnId(other) =>
                   /\ OwnId(other) # OwnId(run)
                   /\ ~CarriesId(run.calls[k], OwnId(other))

\* both runs are mid-flight, each has sent a part under its own id
C21_Witness ==
  /\ pc = "upload" /\ suspended.pc = "upload"
  /\ Len(calls) = 2 /\ Len(suspended.calls) = 2
  /\ calls[2].sent /\ suspended.calls[2].sent
  /\ upload_id = "id2" /\ suspended.upload_id = "id1"

\* C22: a run dropped while it holds an upload id has issued an abort request
\* for that id.
C22_DropAborts ==
  (pc = "dropped" /\ upload_id # "") =>
    \E a \in Requests("abort") : CarriesId(calls[a], upload_id)

\* C24: complete and abort are never both issued in a run; complete is issued
\* only after all planned parts succeeded, abort only after a part upload
\* failed, and no request follows complete or abort.
C24_TerminalStepsExclusive ==
  /\ CallsOf("complete") = {} \/ CallsOf("abort") = {}
  /\ \A c \in CallsOf("complete") :
       /\ c = Len(plan.val) + 2
       /\ Len(parts) = Len(plan.val)
       /\ \A i \in 1..Len(plan.val) :
            /\ calls[i + 1].fn = "upload_part"
            /\ calls[i + 1].number = i
            /\ IsOk(calls[i + 1].ret)
  /\ \A a \in CallsOf("abort") :
       /\ a > 1
       /\ calls[a - 1].fn = "upload_part"
       /\ IsErr(calls[a - 1].ret)
  /\ \A k \in CallsOf("complete") \cup CallsOf("abort") : k = Len(calls)

\* the abort that follows the failure of part 2 was answered with success
C24_Witness ==
  /\ pc = "done"
  /\ Len(parts) = 1
  /\ \E a \in Requests("abort") : IsOk(calls[a].ret)

\* C25: whatever the provider answers to the initiate and part-upload
\* requests, the run does not end abnormally.
C25_NoAbnormalEnd == pc # "panicked"

(* ------------------------------------------------------------------ *)
(* The planner at the top of the word                                  *)
(* ------------------------------------------------------------------ *)
\* C26: in a plan that succeeds no product or sum has wrapped: the offset of
\* chunk i is (i - 1) * chunk_size, it is at most the file size, every chunk
\* ends at or before the file size and the last chunk ends at the file size.
C26_NoOverflow ==
  PlanOk =>
    LET chunks == plan.val
        n == Len(chunks)
    IN /\ \A i \in 1..n :
            /\ chunks[i].number = i
            /\ chunks[i].offset = (i - 1) * chunk_size
            /\ (i - 1) * chunk_size <= FileSize
            /\ chunks[i].offset + chunks[i].size <= FileSize
            /\ chunks[i].offset + chunks[i].size < Word
       /\ n > 0 => chunks[n].offset + chunks[n].size = FileSize
       /\ n = 0 => FileSize = 0

\* the largest file of the word, planned into thousands of chunks
C26_Witness ==
  /\ PlanOk
  /\ FileSize = Word - 1
  /\ Len(plan.val) > 1000
====
